---- MODULE Spec2Model ----
(***************************************************************************)
(* Model of the status poller (StatusPanel) and of the chat panel that     *)
(* triggers it (ChatPanel), as one state machine.                          *)
(*                                                                         *)
(* React specifics that the model keeps:                                   *)
(*  - useState values are captured by the closures of the render in which  *)
(*    a function was created.  startPolling hands the pollLambda of its    *)
(*    own render to setInterval, so every tick of that timer reads the     *)
(*    statusMessage and apiEndpoint of that render; refs (.current) are    *)
(*    read live.                                                           *)
(*  - the chatMessageSent listener is re-registered only when isPolling    *)
(*    changes (effect dependency [isPolling]), so it holds the closure of  *)
(*    the render in which isPolling last changed.                          *)
(*  - the handlers bound in JSX belong to the latest render; a re-render   *)
(*    follows every state update before the next event is handled.         *)
(*  - an await splits pollLambda in two steps: the issue of the fetch and  *)
(*    the resumption with its response.                                    *)
(* Entry timestamps (Date.now()) are not modelled: no decision reads them. *)
(***************************************************************************)
EXTENDS Integers, Sequences, FiniteSets, TLC

\* ---------------------------------------------------------------- bounds
MaxFetches == 3      \* status fetches issued in one behaviour
MaxStarts == 2       \* timers created in one behaviour
MaxLoopFetches == 4  \* status fetches issued by one undisturbed timer loop
MaxSubmits == 1      \* chat submissions accepted in one behaviour
MaxTasks == 2        \* tasks in one orchestrator response

\* ------------------------------------------------------------- constants
NULL == 0                                  \* a ref holding null
SENTINEL == "initial status"
PROCESSING == "processing..."
BASE_URL == "BASE_URL"
STATUS_PATH == "/status"
CHAT_BASE_URL == "CHAT_BASE_URL"
CHAT_PATH == "/chat"

\* raw statuses the remote may report ("" is an absent or empty field)
Statuses == {SENTINEL, "running", "done"}
Endpoints == {BASE_URL, "edited"}

\* ------------------------------------------------- responses and parsing
\* A JSON text: malformed, or an object with the fields the code reads.
\* statusCode 0 and body kind "absent" are the falsy (missing) values.
NoBody == [kind |-> "absent", status |-> ""]
Bodies ==
  {NoBody, [kind |-> "malformed", status |-> ""]}
    \cup {[kind |-> "object", status |-> s] : s \in Statuses \cup {""}}
Texts ==
  {[kind |-> "malformed", statusCode |-> 0, body |-> NoBody, status |-> ""]}
    \cup {[kind |-> "object", statusCode |-> 0, body |-> NoBody, status |-> s] :
            s \in Statuses \cup {""}}
    \cup {[kind |-> "object", statusCode |-> 200, body |-> b, status |-> ""] :
            b \in Bodies}
    \cup {[kind |-> "object", statusCode |-> 0,
           body |-> [kind |-> "object", status |-> "done"], status |-> "running"],
          [kind |-> "object", statusCode |-> 200, body |-> NoBody,
           status |-> "running"]}
EmptyText == [kind |-> "object", statusCode |-> 0, body |-> NoBody, status |-> ""]
\* What a fetch settles with: a rejection, or a response with ok and a text.
Responses ==
  {[rejected |-> TRUE, ok |-> FALSE, text |-> EmptyText],
   [rejected |-> FALSE, ok |-> FALSE, text |-> EmptyText]}
    \cup {[rejected |-> FALSE, ok |-> TRUE, text |-> t] : t \in Texts}

\* JSON.parse: throws on a malformed text, else yields the object.
JSONParse(text) ==
  [threw |-> text.kind = "malformed", statusCode |-> text.statusCode,
   body |-> text.body, status |-> text.status]

\* line 64: (parsed.statusCode && parsed.body) ? JSON.parse(parsed.body) : parsed
UnwrapEnvelope(parsed) ==
  IF parsed.statusCode # 0 /\ parsed.body.kind # "absent"
    THEN [threw |-> parsed.body.kind = "malformed", status |-> parsed.body.status]
    ELSE [threw |-> FALSE, status |-> parsed.status]

\* lines 57-64: the status the cycle extracts, or that it failed.
\* outcome: "error" (!response.ok), "throw" (rejection or parse failure), "data"
ReadResponse(r) ==
  IF r.rejected THEN [outcome |-> "throw", status |-> ""]
  ELSE IF ~r.ok THEN [outcome |-> "error", status |-> ""]
  ELSE LET parsed == JSONParse(r.text) IN
    IF parsed.threw THEN [outcome |-> "throw", status |-> ""]
    ELSE LET data == UnwrapEnvelope(parsed) IN
      IF data.threw THEN [outcome |-> "throw", status |-> ""]
      ELSE [outcome |-> "data", status |-> data.status]

\* --------------------------------------------- orchestrator replies
\* the agents of the switch in processChatMessage, and the ids a reply names
KnownAgents == {"worker-1", "worker-2", "worker-3", "worker-4"}
AgentIds == {"worker-1", "worker-2", "worker-9"}
\* what invokeOrchestrator can end with: a failure, or a response whose
\* tasks and assignedAgents are present or not; tasks counts the tasks.
NoReply ==
  [ok |-> FALSE, tasks |-> [present |-> FALSE, count |-> 0],
   assignedAgents |-> [present |-> FALSE, ids |-> <<>>]]
OrchestratorReplies ==
  {NoReply} \cup
  {[ok |-> TRUE, tasks |-> t, assignedAgents |-> a] :
     t \in {[present |-> FALSE, count |-> 0]}
            \cup {[present |-> TRUE, count |-> n] : n \in 0..MaxTasks},
     a \in {[present |-> FALSE, ids |-> <<>>]}
            \cup {[present |-> TRUE, ids |-> ids] :
                    ids \in UNION {[1..k -> AgentIds] : k \in 0..MaxTasks}}}

\* --------------------------------------------------------------- state
VARIABLES
  statusMessage,       \* useState('')
  statusHistory,       \* useState([]): sequence of [id, status]
  isPolling,           \* useState(false)
  apiEndpoint,         \* useState(API_CONFIG.BASE_URL)
  connectionStatus,    \* useState('Ready')
  pollIntervalRef,     \* useRef(null): NULL or the id of a timer
  historyIdCounter,    \* useRef(0)
  previousStatusRef,   \* useRef('')
  mounted,             \* the component is mounted
  timers,              \* live setInterval timers: [id, statusMessage, apiEndpoint]
  nextTimerId,         \* the id the next setInterval returns
  inflight,            \* pollLambda calls suspended at await fetch
  fetchCounter,        \* fetches issued so far
  listener,            \* closure of the registered chatMessageSent handler
  uncaught,            \* a pollLambda promise rejected (exception left the cycle)
  logging,             \* history variable: sessionRaws is being kept
  sessionRaws,         \* history variable: the statuses fetched since start()
  appliedSeq,          \* history variable: seq of the fetch applied last
  failedCycles,        \* history variable: cycles that ended in the catch block
  resetPhase,          \* history variable: progress of stop, clear, start
  startIgnored,        \* history variable: startPolling returned at its guard
  messages,            \* ChatPanel useState([]): [id, text, sender, error]
  inputValue,          \* ChatPanel useState('')
  isProcessing,        \* ChatPanel useState(false)
  chatConnectionStatus,\* ChatPanel useState('Connected')
  messageIdCounter,    \* ChatPanel useRef(0)
  chatInflight,        \* chat POSTs suspended at await fetch
  submits,             \* submissions accepted so far
  wfPc,                \* processChatMessage: where the call stands
  wfReply,             \* processChatMessage: orchestratorResponse
  wfWorkers,           \* processChatMessage: workerPromises, [agent, state]
  wfUpdates,           \* the addStatusUpdate calls of the workflow, in order
  wfResult,            \* how the promise of processChatMessage settled
  submitIgnored        \* history variable: handleSubmit returned at its guard

pollerVars ==
  <<statusMessage, statusHistory, isPolling, apiEndpoint, connectionStatus,
    pollIntervalRef, historyIdCounter, previousStatusRef, timers,
    nextTimerId, inflight, fetchCounter, listener, uncaught, logging,
    sessionRaws, appliedSeq, failedCycles, resetPhase, startIgnored>>
chatVars ==
  <<messages, inputValue, isProcessing, chatConnectionStatus, messageIdCounter,
    chatInflight, submits>>
wfVars == <<wfPc, wfReply, wfWorkers, wfUpdates, wfResult>>
vars == <<pollerVars, chatVars, mounted, wfVars, submitIgnored>>

\* ---------------------------------------------------------------- helpers
Last(s) == s[Len(s)]
IsPrefix(s, t) == Len(s) <= Len(t) /\ SubSeq(t, 1, Len(s)) = s
StatusesOf(h) == [i \in 1..Len(h) |-> h[i].status]

\* the values of the current render that a function created in it captures
RenderClosure == [statusMessage |-> statusMessage, apiEndpoint |-> apiEndpoint]
ListenerOf(polling) ==
  [isPolling |-> polling, statusMessage |-> statusMessage, apiEndpoint |-> apiEndpoint]

InitState ==
  /\ statusMessage = ""
  /\ statusHistory = <<>>
  /\ isPolling = FALSE
  /\ apiEndpoint = BASE_URL
  /\ connectionStatus = "Ready"
  /\ pollIntervalRef = NULL
  /\ historyIdCounter = 0
  /\ previousStatusRef = ""
  /\ mounted = TRUE
  /\ timers = {}
  /\ nextTimerId = 1
  /\ inflight = {}
  /\ fetchCounter = 0
  /\ listener = [isPolling |-> FALSE, statusMessage |-> "", apiEndpoint |-> BASE_URL]
  /\ uncaught = FALSE
  /\ sessionRaws = <<>>
  /\ appliedSeq = 0
  /\ failedCycles = 0
  /\ resetPhase = "none"
  /\ startIgnored = FALSE
  /\ messages = <<>>
  /\ inputValue = <<>>
  /\ isProcessing = FALSE
  /\ chatConnectionStatus = "Connected"
  /\ messageIdCounter = 0
  /\ chatInflight = {}
  /\ submits = 0
  /\ wfPc = "idle"
  /\ wfReply = NoReply
  /\ wfWorkers = <<>>
  /\ wfUpdates = <<>>
  /\ wfResult = "none"
  /\ submitIgnored = "no"

Init == InitState /\ logging = FALSE

\* ------------------------------------------------------------ pollLambda
\* variants of addToHistory: the entry put in front; the counter not advanced
addToHistoryPrepend(history, counter, status) ==
  [history |-> <<[id |-> counter, status |-> status]>> \o history,
   counter |-> counter + 1]
addToHistoryNoIncrement(history, counter, status) ==
  [history |-> Append(history, [id |-> counter, status |-> status]),
   counter |-> counter]

\* lines 39-46: the entry takes the counter's value, the counter moves on,
\* and the entry goes to the end of the list (functional update).
addToHistory(history, counter, status) ==
  [history |-> Append(history, [id |-> counter, status |-> status]),
   counter |-> counter + 1]

\* lines 50-55: the synchronous part of pollLambda, up to await fetch.
\* c is the closure of the render that created this pollLambda.
FetchOf(c) ==
  [seq |-> fetchCounter + 1, statusMessage |-> c.statusMessage,
   url |-> <<c.apiEndpoint, STATUS_PATH>>]

\* variant of Decide: the comparison with the displayed text comes first
DecideChangedFirst(currentStatus, previous, msg) ==
  IF currentStatus = ""
    THEN "nostatus"
  ELSE IF currentStatus # msg
    THEN "changed"
  ELSE IF currentStatus = previous /\ currentStatus # SENTINEL
    THEN (IF msg # PROCESSING THEN "processing" ELSE "skip")
  ELSE "nochange"

\* variant of Decide: the fetched status is not tested for presence
DecideNoStatusCheck(currentStatus, previous, msg) ==
  IF currentStatus = previous /\ currentStatus # SENTINEL
    THEN (IF msg # PROCESSING THEN "processing" ELSE "skip")
  ELSE IF currentStatus # msg
    THEN "changed"
  ELSE "nochange"

\* lines 66-86: which branch a cycle with a fetched status takes.
\* msg is the statusMessage of the closure, previous the live ref.
Decide(currentStatus, previous, msg) ==
  IF currentStatus = ""
    THEN "nostatus"
  ELSE IF currentStatus = previous /\ currentStatus # SENTINEL
    THEN (IF msg # PROCESSING THEN "processing" ELSE "skip")
  ELSE IF currentStatus # msg
    THEN "changed"
  ELSE "nochange"

\* variant of catchPollError: no catch block, the exception leaves pollLambda
catchPollErrorMissing(o) == [o EXCEPT !.escaped = TRUE]

\* lines 88-91: the catch block of pollLambda; o holds the values at the throw.
catchPollError(o) == [o EXCEPT !.conn = "Error"]

\* lines 48-92 after the await: the values the cycle leaves, computed from
\* the response r and the closure's statusMessage msg.
\* escaped: an exception left pollLambda (its promise rejected).
PollOutcome(r, msg) ==
  LET rd == ReadResponse(r)
      same == [msg |-> statusMessage, hist |-> statusHistory,
               counter |-> historyIdCounter, prev |-> previousStatusRef,
               conn |-> connectionStatus, escaped |-> FALSE]
      rule == Decide(rd.status, previousStatusRef, msg)
  IN
  IF rd.outcome = "error" THEN [same EXCEPT !.conn = "Error"]
  ELSE IF rd.outcome = "throw" THEN catchPollError(same)
  ELSE IF rule = "processing" THEN
    LET a == addToHistory(statusHistory, historyIdCounter, PROCESSING) IN
    [same EXCEPT !.msg = PROCESSING, !.hist = a.history, !.counter = a.counter,
                 !.conn = "Polling - Processing"]
  ELSE IF rule = "changed" THEN
    LET a == addToHistory(statusHistory, historyIdCounter, rd.status) IN
    [same EXCEPT !.msg = rd.status, !.hist = a.history, !.counter = a.counter,
                 !.prev = rd.status, !.conn = "Polling - Status updated"]
  ELSE IF rule = "nochange" THEN [same EXCEPT !.conn = "Polling - No change"]
  ELSE same

\* the status a response delivers ("" when it fails or carries none),
\* read off the response itself
Delivered(r) ==
  IF r.rejected \/ ~r.ok \/ r.text.kind = "malformed" THEN ""
  ELSE IF r.text.statusCode # 0 /\ r.text.body.kind # "absent"
    THEN (IF r.text.body.kind = "object" THEN r.text.body.status ELSE "")
  ELSE r.text.status
\* the statuses that successful fetches delivered, while they are logged
LogRaw(r) ==
  IF logging /\ Delivered(r) # ""
    THEN Append(sessionRaws, Delivered(r)) ELSE sessionRaws

\* a fetch issued before one whose response has already been applied
Superseded(f) ==
  \E n \in (f.seq + 1)..fetchCounter : \A g \in inflight : g.seq # n

\* variant of PollResume: the response of a superseded fetch is dropped
PollResumeSequenced(f, r) ==
  LET o == IF Superseded(f)
             THEN [msg |-> statusMessage, hist |-> statusHistory,
                   counter |-> historyIdCounter, prev |-> previousStatusRef,
                   conn |-> connectionStatus, escaped |-> FALSE]
             ELSE PollOutcome(r, f.statusMessage) IN
  /\ inflight' = inflight \ {f}
  /\ statusMessage' = o.msg
  /\ statusHistory' = o.hist
  /\ historyIdCounter' = o.counter
  /\ previousStatusRef' = o.prev
  /\ connectionStatus' = o.conn
  /\ uncaught' = (uncaught \/ o.escaped)
  /\ sessionRaws' = LogRaw(r)
  /\ appliedSeq' = IF logging THEN f.seq ELSE appliedSeq
  /\ failedCycles' = IF logging /\ ReadResponse(r).outcome # "data"
                       THEN failedCycles + 1 ELSE failedCycles
  /\ resetPhase' = IF resetPhase = "restarted" /\ Delivered(r) # ""
                     THEN "none" ELSE resetPhase
  /\ UNCHANGED <<isPolling, apiEndpoint, pollIntervalRef, timers,
                 nextTimerId, fetchCounter, listener, logging, startIgnored>>

\* variant of PollResume: a cycle that ends in the catch block stops polling
PollResumeStopOnError(f, r) ==
  LET o == PollOutcome(r, f.statusMessage)
      failed == ReadResponse(r).outcome # "data" IN
  /\ inflight' = inflight \ {f}
  /\ statusMessage' = o.msg
  /\ statusHistory' = o.hist
  /\ historyIdCounter' = o.counter
  /\ previousStatusRef' = o.prev
  /\ connectionStatus' = o.conn
  /\ uncaught' = (uncaught \/ o.escaped)
  /\ sessionRaws' = LogRaw(r)
  /\ appliedSeq' = IF logging THEN f.seq ELSE appliedSeq
  /\ failedCycles' = IF logging /\ failed
                       THEN failedCycles + 1 ELSE failedCycles
  /\ resetPhase' = IF resetPhase = "restarted" /\ Delivered(r) # ""
                     THEN "none" ELSE resetPhase
  /\ isPolling' = IF failed THEN FALSE ELSE isPolling
  /\ timers' = IF failed THEN {} ELSE timers
  /\ pollIntervalRef' = IF failed THEN NULL ELSE pollIntervalRef
  /\ UNCHANGED <<apiEndpoint, nextTimerId, fetchCounter, listener, logging,
                 startIgnored>>

\* A suspended pollLambda resumes with the response of its fetch.
PollResume(f, r) ==
  LET o == PollOutcome(r, f.statusMessage) IN
  /\ inflight' = inflight \ {f}
  /\ statusMessage' = o.msg
  /\ statusHistory' = o.hist
  /\ historyIdCounter' = o.counter
  /\ previousStatusRef' = o.prev
  /\ connectionStatus' = o.conn
  /\ uncaught' = (uncaught \/ o.escaped)
  /\ sessionRaws' = LogRaw(r)
  /\ appliedSeq' = IF logging THEN f.seq ELSE appliedSeq
  /\ failedCycles' = IF logging /\ ReadResponse(r).outcome # "data"
                       THEN failedCycles + 1 ELSE failedCycles
  /\ resetPhase' = IF resetPhase = "restarted" /\ Delivered(r) # ""
                     THEN "none" ELSE resetPhase
  /\ UNCHANGED <<isPolling, apiEndpoint, pollIntervalRef, timers,
                 nextTimerId, fetchCounter, listener, logging, startIgnored>>

\* line 100: a tick of a live timer calls the pollLambda it was given.
TimerFires(t) ==
  /\ inflight' = inflight \cup {FetchOf(t)}
  /\ fetchCounter' = fetchCounter + 1
  /\ UNCHANGED <<statusMessage, statusHistory, isPolling, apiEndpoint,
                 connectionStatus, pollIntervalRef, historyIdCounter,
                 previousStatusRef, timers, nextTimerId, listener,
                 uncaught, logging, sessionRaws, appliedSeq, failedCycles, resetPhase, startIgnored>>

\* -------------------------------------------------- start / stop / clear
\* variant of startPolling: the guard on the timer handle is missing
startPollingNoGuard(c) ==
  /\ isPolling' = TRUE
  /\ connectionStatus' = "Polling started"
  /\ previousStatusRef' = ""
  /\ inflight' = inflight \cup {FetchOf(c)}
  /\ fetchCounter' = fetchCounter + 1
  /\ timers' = timers \cup
       {[id |-> nextTimerId, statusMessage |-> c.statusMessage,
         apiEndpoint |-> c.apiEndpoint]}
  /\ pollIntervalRef' = nextTimerId
  /\ nextTimerId' = nextTimerId + 1
  /\ listener' = IF isPolling THEN listener ELSE ListenerOf(TRUE)
  /\ resetPhase' = IF resetPhase = "cleared" THEN "restarted" ELSE "none"
  /\ startIgnored' = (pollIntervalRef # NULL)
  /\ sessionRaws' = <<>>
  /\ UNCHANGED <<statusMessage, statusHistory, apiEndpoint,
                 historyIdCounter, uncaught, logging, appliedSeq, failedCycles>>

\* lines 94-101, called through a function of the render with closure c.
startPolling(c) ==
  IF pollIntervalRef # NULL
    THEN /\ startIgnored' = TRUE
         /\ UNCHANGED <<statusMessage, statusHistory, isPolling, apiEndpoint,
                        connectionStatus, pollIntervalRef, historyIdCounter,
                        previousStatusRef, timers, nextTimerId, inflight,
                        fetchCounter, listener, uncaught, logging,
                        sessionRaws, appliedSeq, failedCycles, resetPhase>>
    ELSE /\ isPolling' = TRUE
         /\ connectionStatus' = "Polling started"
         /\ previousStatusRef' = ""
         /\ inflight' = inflight \cup {FetchOf(c)}
         /\ fetchCounter' = fetchCounter + 1
         /\ timers' = timers \cup
              {[id |-> nextTimerId, statusMessage |-> c.statusMessage,
                apiEndpoint |-> c.apiEndpoint]}
         /\ pollIntervalRef' = nextTimerId
         /\ nextTimerId' = nextTimerId + 1
         /\ listener' = IF isPolling THEN listener ELSE ListenerOf(TRUE)
         /\ resetPhase' = IF resetPhase = "cleared" THEN "restarted" ELSE "none"
         /\ sessionRaws' = <<>>
         /\ UNCHANGED <<statusMessage, statusHistory, apiEndpoint,
                        historyIdCounter, uncaught, logging, appliedSeq, failedCycles,
                        startIgnored>>

\* variant of stopPolling: the handle is dropped without clearInterval
stopPollingKeepTimer ==
  /\ pollIntervalRef' = NULL
  /\ isPolling' = FALSE
  /\ connectionStatus' = "Stopped"
  /\ listener' = IF isPolling THEN ListenerOf(FALSE) ELSE listener
  /\ resetPhase' = "stopped"
  /\ startIgnored' = FALSE
  /\ UNCHANGED <<statusMessage, statusHistory, apiEndpoint, historyIdCounter,
                 previousStatusRef, nextTimerId, inflight, timers,
                 fetchCounter, uncaught, logging, sessionRaws, appliedSeq, failedCycles>>

\* variant of stopPolling: the fetches in flight are aborted with the timer
stopPollingAbort ==
  /\ timers' = IF pollIntervalRef # NULL
                 THEN {t \in timers : t.id # pollIntervalRef} ELSE timers
  /\ pollIntervalRef' = NULL
  /\ isPolling' = FALSE
  /\ connectionStatus' = "Stopped"
  /\ listener' = IF isPolling THEN ListenerOf(FALSE) ELSE listener
  /\ resetPhase' = "stopped"
  /\ startIgnored' = FALSE
  /\ inflight' = {}
  /\ UNCHANGED <<statusMessage, statusHistory, apiEndpoint, historyIdCounter,
                 previousStatusRef, nextTimerId,
                 fetchCounter, uncaught, logging, sessionRaws, appliedSeq, failedCycles>>

\* variant of stopPolling: the tracker is reset as startPolling resets it
stopPollingResetTracker ==
  /\ timers' = IF pollIntervalRef # NULL
                 THEN {t \in timers : t.id # pollIntervalRef} ELSE timers
  /\ pollIntervalRef' = NULL
  /\ isPolling' = FALSE
  /\ connectionStatus' = "Stopped"
  /\ listener' = IF isPolling THEN ListenerOf(FALSE) ELSE listener
  /\ resetPhase' = "stopped"
  /\ startIgnored' = FALSE
  /\ previousStatusRef' = ""
  /\ UNCHANGED <<statusMessage, statusHistory, apiEndpoint, historyIdCounter,
                 nextTimerId, inflight, fetchCounter, uncaught, logging,
                 sessionRaws, appliedSeq, failedCycles>>

\* variant of stopPolling: the timer is cleared but isPolling stays as it is
stopPollingKeepFlag ==
  /\ timers' = IF pollIntervalRef # NULL
                 THEN {t \in timers : t.id # pollIntervalRef} ELSE timers
  /\ pollIntervalRef' = NULL
  /\ connectionStatus' = "Stopped"
  /\ resetPhase' = "stopped"
  /\ startIgnored' = FALSE
  /\ UNCHANGED <<statusMessage, statusHistory, isPolling, apiEndpoint,
                 historyIdCounter, previousStatusRef, nextTimerId, inflight,
                 fetchCounter, listener, uncaught, logging, sessionRaws,
                 appliedSeq, failedCycles>>

\* lines 103-110
stopPolling ==
  /\ timers' = IF pollIntervalRef # NULL
                 THEN {t \in timers : t.id # pollIntervalRef} ELSE timers
  /\ pollIntervalRef' = NULL
  /\ isPolling' = FALSE
  /\ connectionStatus' = "Stopped"
  /\ listener' = IF isPolling THEN ListenerOf(FALSE) ELSE listener
  /\ resetPhase' = "stopped"
  /\ startIgnored' = FALSE
  /\ UNCHANGED <<statusMessage, statusHistory, apiEndpoint, historyIdCounter,
                 previousStatusRef, nextTimerId, inflight,
                 fetchCounter, uncaught, logging, sessionRaws, appliedSeq, failedCycles>>

\* variant of clearHistory: the displayed text is left as it is
clearHistoryKeepText ==
  /\ statusHistory' = <<>>
  /\ historyIdCounter' = 0
  /\ previousStatusRef' = ""
  /\ resetPhase' = IF inflight # {} THEN "clearedInflight"
                   ELSE IF resetPhase \in {"stopped", "cleared"}
                     THEN "cleared" ELSE "none"
  /\ UNCHANGED <<statusMessage, isPolling, apiEndpoint, connectionStatus,
                 pollIntervalRef, timers, nextTimerId, inflight, fetchCounter,
                 listener, uncaught, logging, sessionRaws, appliedSeq,
                 failedCycles, startIgnored>>

\* lines 112-117
clearHistory ==
  /\ statusHistory' = <<>>
  /\ statusMessage' = ""
  /\ historyIdCounter' = 0
  /\ previousStatusRef' = ""
  /\ resetPhase' = IF inflight # {} THEN "clearedInflight"
                   ELSE IF resetPhase \in {"stopped", "cleared"}
                     THEN "cleared" ELSE "none"
  /\ UNCHANGED <<isPolling, apiEndpoint, connectionStatus, pollIntervalRef,
                 timers, nextTimerId, inflight, fetchCounter,
                 listener, uncaught, logging, sessionRaws, appliedSeq, failedCycles, startIgnored>>

\* lines 119-122: the registered handler, with the isPolling and the
\* startPolling of the render that registered it.
handleChatMessage ==
  IF ~listener.isPolling
    THEN startPolling([statusMessage |-> listener.statusMessage,
                       apiEndpoint |-> listener.apiEndpoint])
    ELSE UNCHANGED pollerVars

\* -------------------------------------------------------------- ChatPanel
\* the texts a user can have in the input field (sequences of characters)
Inputs == {<<>>, <<" ">>, <<"a">>, <<" ", "a", " ">>}

RECURSIVE TrimStart(_)
TrimStart(s) ==
  IF s # <<>> /\ Head(s) = " " THEN TrimStart(Tail(s)) ELSE s
RECURSIVE TrimEnd(_)
TrimEnd(s) ==
  IF s # <<>> /\ Last(s) = " " THEN TrimEnd(SubSeq(s, 1, Len(s) - 1)) ELSE s
\* String.prototype.trim
Trim(s) == TrimEnd(TrimStart(s))

\* a || b on strings
Or(a, b) == IF a # "" THEN a ELSE b

\* The bodies a chat response can carry.  json: what response.json() does
\* ("malformed" throws, "null" yields null, "object" an object).  body.kind:
\* "absent", "string" (a string, which parses as inner says) or "object".
NoChatBody ==
  [kind |-> "absent", inner |-> "malformed", raw |-> "",
   response |-> "", message |-> "", body |-> ""]
ChatBodies ==
  {NoChatBody,
   [kind |-> "string", inner |-> "malformed", raw |-> "raw body",
    response |-> "", message |-> "", body |-> ""],
   [kind |-> "string", inner |-> "null", raw |-> "raw body",
    response |-> "", message |-> "", body |-> ""],
   [kind |-> "string", inner |-> "object", raw |-> "raw body",
    response |-> "reply", message |-> "note", body |-> ""],
   [kind |-> "string", inner |-> "object", raw |-> "raw body",
    response |-> "", message |-> "note", body |-> "inner body"],
   [kind |-> "string", inner |-> "object", raw |-> "raw body",
    response |-> "", message |-> "", body |-> ""],
   [kind |-> "object", inner |-> "object", raw |-> "stringified body",
    response |-> "reply", message |-> "", body |-> ""],
   [kind |-> "object", inner |-> "object", raw |-> "stringified body",
    response |-> "", message |-> "", body |-> ""]}
ChatData ==
  {[json |-> j, statusCode |-> 0, body |-> NoChatBody, response |-> "",
    message |-> ""] : j \in {"malformed", "null"}}
    \cup {[json |-> "object", statusCode |-> c, body |-> b, response |-> r,
           message |-> m] :
            c \in {0, 200}, b \in ChatBodies, r \in {"", "reply"},
            m \in {"", "note"}}
NoChatData ==
  [json |-> "object", statusCode |-> 0, body |-> NoChatBody, response |-> "",
   message |-> ""]
ChatResponses ==
  {[rejected |-> TRUE, ok |-> FALSE, data |-> NoChatData],
   [rejected |-> FALSE, ok |-> FALSE, data |-> NoChatData]}
    \cup {[rejected |-> FALSE, ok |-> TRUE, data |-> d] : d \in ChatData}

\* lines 372-391: the bot text taken from a parsed response, or a throw
\* (property read on null).  JSON.stringify(data) is the text "stringified".
ExtractBotMessage(data) ==
  IF data.json = "null" THEN [threw |-> TRUE, text |-> ""]
  ELSE IF data.statusCode # 0 /\ data.body.kind # "absent" THEN
    IF data.body.kind = "string" THEN
      IF data.body.inner = "object"
        THEN [threw |-> FALSE,
              text |-> Or(data.body.response, Or(data.body.message,
                          Or(data.body.body, data.body.raw)))]
        ELSE [threw |-> FALSE, text |-> data.body.raw]
    ELSE [threw |-> FALSE,
          text |-> Or(data.body.response, Or(data.body.message,
                      Or(data.body.body, data.body.raw)))]
  ELSE [threw |-> FALSE,
        text |-> Or(data.response, Or(data.message,
                    Or(IF data.body.kind = "absent" THEN "" ELSE data.body.raw,
                       "stringified")))]

\* lines 359-397: the bot text a response leads to, or the error thrown.
ChatOutcome(r) ==
  IF r.rejected THEN [threw |-> TRUE, text |-> "Error: fetch"]
  ELSE IF ~r.ok THEN [threw |-> TRUE, text |-> "Error: HTTP"]
  ELSE IF r.data.json = "malformed" THEN [threw |-> TRUE, text |-> "Error: json"]
  ELSE LET m == ExtractBotMessage(r.data) IN
    IF m.threw THEN [threw |-> TRUE, text |-> "Error: TypeError"]
    ELSE IF m.text = "" THEN [threw |-> TRUE, text |-> "Error: No message"]
    ELSE [threw |-> FALSE, text |-> m.text]

\* lines 335-346
addMessage(list, counter, text, sender, error) ==
  [list |-> Append(list, [id |-> counter, text |-> text, sender |-> sender,
                          error |-> error]),
   counter |-> counter + 1]

\* lines 352-363: sendToLambda up to await fetch
PostOf(userMessage) ==
  [message |-> userMessage, url |-> <<CHAT_BASE_URL, CHAT_PATH>>,
   seq |-> submits + 1]

\* variant of handleSubmit: notifyStatusPanel() is not called
handleSubmitNoNotify ==
  IF Trim(inputValue) = <<>> \/ isProcessing
    THEN UNCHANGED <<pollerVars, chatVars>>
    ELSE LET a == addMessage(messages, messageIdCounter, Trim(inputValue), "user",
                               FALSE) IN
         /\ inputValue' = <<>>
         /\ messages' = a.list
         /\ messageIdCounter' = a.counter
         /\ UNCHANGED pollerVars
         /\ isProcessing' = TRUE
         /\ chatConnectionStatus' = "Processing..."
         /\ chatInflight' = chatInflight \cup {PostOf(Trim(inputValue))}
         /\ submits' = submits + 1

\* variant of handleSubmit: the guard on the input and isProcessing is gone
handleSubmitNoGuard ==
  LET a == addMessage(messages, messageIdCounter, Trim(inputValue), "user",
                      FALSE) IN
  /\ inputValue' = <<>>
  /\ messages' = a.list
  /\ messageIdCounter' = a.counter
  /\ handleChatMessage
  /\ isProcessing' = TRUE
  /\ chatConnectionStatus' = "Processing..."
  /\ chatInflight' = chatInflight \cup {PostOf(Trim(inputValue))}
  /\ submits' = submits + 1

\* lines 410-422 with 348-363: handleSubmit of the latest render, down to
\* the await in sendToLambda.  dispatchEvent runs the listener inside it.
handleSubmit ==
  IF Trim(inputValue) = <<>> \/ isProcessing
    THEN UNCHANGED <<pollerVars, chatVars>>
    ELSE LET a == addMessage(messages, messageIdCounter, Trim(inputValue), "user",
                               FALSE) IN
         /\ inputValue' = <<>>
         /\ messages' = a.list
         /\ messageIdCounter' = a.counter
         /\ handleChatMessage
         /\ isProcessing' = TRUE
         /\ chatConnectionStatus' = "Processing..."
         /\ chatInflight' = chatInflight \cup {PostOf(Trim(inputValue))}
         /\ submits' = submits + 1

\* lines 365-407: sendToLambda after the await
SendResume(p, r) ==
  LET o == ChatOutcome(r)
      a == addMessage(messages, messageIdCounter, o.text, "bot", o.threw) IN
  /\ chatInflight' = chatInflight \ {p}
  /\ messages' = a.list
  /\ messageIdCounter' = a.counter
  /\ chatConnectionStatus' = IF o.threw THEN "Error" ELSE "Connected"
  /\ isProcessing' = FALSE
  /\ UNCHANGED <<inputValue, submits>>

\* ----------------------------------------------------- processChatMessage
\* one addStatusUpdate call: its message, and the agent it is about
Update(message) == [message |-> message, agent |-> ""]
AgentUpdate(message, agent) == [message |-> message, agent |-> agent]

\* part_000 lines 196-217: tasks.forEach over tasks i..n with the agent ids
\* of the response; index i of the code is i - 1 here.  An agent of the
\* switch is invoked (its function runs to its await: "started" is
\* reported), any other id, also a missing one, gets a warning.
RECURSIVE Dispatch(_, _, _)
Dispatch(i, n, ids) ==
  IF i > n THEN [workers |-> <<>>, updates |-> <<>>]
  ELSE
    LET agentId == IF i <= Len(ids) THEN ids[i] ELSE "undefined"
        rest == Dispatch(i + 1, n, ids) IN
    IF agentId \in KnownAgents
      THEN [workers |-> <<[agent |-> agentId, state |-> "running"]>>
                          \o rest.workers,
            updates |-> <<AgentUpdate("Worker Agent started", agentId)>>
                          \o rest.updates]
      ELSE [workers |-> rest.workers,
            updates |-> <<AgentUpdate("Unknown agent", agentId)>>
                          \o rest.updates]

\* variant of PromiseAll: it waits for all and fulfils whatever they did
PromiseAllSettled(workers) ==
  IF \A i \in 1..Len(workers) : workers[i].state # "running"
    THEN "fulfilled" ELSE "pending"

\* part_000 line 222: Promise.all over the worker promises
PromiseAll(workers) ==
  IF \E i \in 1..Len(workers) : workers[i].state = "failed" THEN "rejected"
  ELSE IF \A i \in 1..Len(workers) : workers[i].state = "ok" THEN "fulfilled"
  ELSE "pending"

\* part_000 lines 222-238: processChatMessage from its await of Promise.all
AwaitWorkers(updates, workers) ==
  LET p == PromiseAll(workers) IN
  IF p = "fulfilled"
    THEN [pc |-> "returned", result |-> "aggregate",
          updates |-> Append(updates, Update("Workflow completed"))]
  ELSE IF p = "rejected"
    THEN [pc |-> "thrown", result |-> "error",
          updates |-> Append(updates, Update("Workflow failed"))]
  ELSE [pc |-> "workers", result |-> "none", updates |-> updates]

\* part_000 lines 180-185 with 51-62: the call, down to the await of the
\* orchestrator's fetch
processChatMessage ==
  /\ wfPc = "idle"
  /\ wfPc' = "orchestrator"
  /\ wfUpdates' = <<Update("Starting workflow"), Update("Orchestrator invoked")>>
  /\ UNCHANGED <<wfReply, wfWorkers, wfResult>>

\* part_000 lines 62-70 and 185-238: invokeOrchestrator settles with reply
\* and processChatMessage runs on to its return, its throw or its await
\* of the workers.
OrchestratorSettles(reply) ==
  /\ wfPc = "orchestrator"
  /\ wfReply' = reply
  /\ IF ~reply.ok
       THEN /\ wfUpdates' = wfUpdates \o <<Update("Orchestrator error"),
                                            Update("Workflow failed")>>
            /\ wfPc' = "thrown"
            /\ wfResult' = "error"
            /\ UNCHANGED wfWorkers
     ELSE IF ~reply.tasks.present \/ reply.tasks.count = 0
       THEN /\ wfUpdates' = wfUpdates \o <<Update("Orchestrator processing"),
                                            Update("No tasks assigned")>>
            /\ wfPc' = "returned"
            /\ wfResult' = "orchestratorResponse"
            /\ UNCHANGED wfWorkers
     ELSE IF ~reply.assignedAgents.present
       THEN \* assignedAgents[index] on undefined throws inside forEach
            /\ wfUpdates' = wfUpdates \o <<Update("Orchestrator processing"),
                                            Update("Workflow failed")>>
            /\ wfPc' = "thrown"
            /\ wfResult' = "error"
            /\ UNCHANGED wfWorkers
     ELSE LET d == Dispatch(1, reply.tasks.count, reply.assignedAgents.ids)
              a == AwaitWorkers(
                     wfUpdates \o <<Update("Orchestrator processing")>>
                       \o d.updates \o <<Update("Workers executing")>>,
                     d.workers) IN
            /\ wfWorkers' = d.workers
            /\ wfUpdates' = a.updates
            /\ wfPc' = a.pc
            /\ wfResult' = a.result

\* part_000 lines 79-96 (and the three like it): the fetch of worker i
\* settles, the worker reports and its promise settles; a processChatMessage
\* still awaiting Promise.all goes on when that settles.
WorkerSettles(i, ok) ==
  /\ i \in 1..Len(wfWorkers)
  /\ wfWorkers[i].state = "running"
  /\ LET workers == [wfWorkers EXCEPT ![i].state = IF ok THEN "ok" ELSE "failed"]
         updates == Append(wfUpdates,
                      AgentUpdate(IF ok THEN "Worker Agent completed"
                                        ELSE "Worker Agent failed",
                                  wfWorkers[i].agent))
         a == AwaitWorkers(updates, workers) IN
     /\ wfWorkers' = workers
     /\ IF wfPc = "workers"
          THEN /\ wfUpdates' = a.updates
               /\ wfPc' = a.pc
               /\ wfResult' = a.result
          ELSE /\ wfUpdates' = updates
               /\ UNCHANGED <<wfPc, wfResult>>
  /\ UNCHANGED wfReply

\* --------------------------------------------------------------- actions
\* the bounds of a behaviour: fetches issued and timers created
CanFetch == fetchCounter < MaxFetches
CanStart ==
  pollIntervalRef # NULL \/ (CanFetch /\ nextTimerId <= MaxStarts)

\* Start, Stop and Clear are the poller's operations, called through the
\* functions of the latest render (lines 149 and 152 bind them to buttons).
Start ==
  /\ mounted
  /\ CanStart
  /\ startPolling(RenderClosure)
  /\ UNCHANGED <<chatVars, mounted, wfVars, submitIgnored>>
Stop == mounted /\ stopPolling /\ UNCHANGED <<chatVars, mounted, wfVars, submitIgnored>>
Clear == mounted /\ clearHistory /\ UNCHANGED <<chatVars, mounted, wfVars, submitIgnored>>

\* lines 124 and 349: the window event chatMessageSent reaches the listener
ChatMessageSent ==
  /\ mounted
  /\ CanStart
  /\ handleChatMessage
  /\ UNCHANGED <<chatVars, mounted, wfVars, submitIgnored>>

\* line 155: the endpoint field
EditEndpoint ==
  /\ mounted
  /\ \E e \in Endpoints \ {apiEndpoint} : apiEndpoint' = e
  /\ UNCHANGED <<statusMessage, statusHistory, isPolling, connectionStatus,
                 pollIntervalRef, historyIdCounter, previousStatusRef,
                 timers, nextTimerId, inflight, fetchCounter, listener,
                 uncaught, logging, sessionRaws, appliedSeq, failedCycles, resetPhase, startIgnored>>
  /\ UNCHANGED <<chatVars, mounted, wfVars, submitIgnored>>

Tick ==
  /\ mounted
  /\ CanFetch
  /\ \E t \in timers : TimerFires(t)
  /\ UNCHANGED <<chatVars, mounted, wfVars, submitIgnored>>

FetchComplete ==
  /\ mounted
  /\ \E f \in inflight : \E r \in Responses : PollResume(f, r)
  /\ UNCHANGED <<chatVars, mounted, wfVars, submitIgnored>>

\* lines 128-130: the cleanup at unmount calls stopPolling; nothing of the
\* component is observed afterwards.
Unmount ==
  /\ mounted
  /\ stopPolling
  /\ mounted' = FALSE
  /\ UNCHANGED <<chatVars, wfVars, submitIgnored>>

\* line 479: the chat input field, disabled while isProcessing
TypeInput ==
  /\ mounted
  /\ ~isProcessing
  /\ \E v \in Inputs \ {inputValue} : inputValue' = v
  /\ UNCHANGED <<messages, isProcessing, chatConnectionStatus,
                 messageIdCounter, chatInflight, submits>>
  /\ UNCHANGED <<pollerVars, mounted, wfVars, submitIgnored>>

Submit ==
  /\ mounted
  /\ CanStart
  /\ submits < MaxSubmits
  /\ handleSubmit
  /\ UNCHANGED <<mounted, wfVars, submitIgnored>>

ChatComplete ==
  /\ mounted
  /\ \E p \in chatInflight : \E r \in ChatResponses : SendResume(p, r)
  /\ UNCHANGED <<pollerVars, mounted, wfVars, submitIgnored>>

\* The poller with its operations and the chat signal.
Next ==
  \/ Start
  \/ Stop
  \/ Clear
  \/ ChatMessageSent
  \/ Tick
  \/ FetchComplete
  \/ Unmount

Spec == Init /\ [][Next]_vars

\* The same, with the operations reachable only as the rendered buttons
\* allow: line 149 binds the button to stopPolling while isPolling and to
\* startPolling otherwise, line 152 disables Clear while isPolling.
StartButton == ~isPolling /\ Start
StopButton == isPolling /\ Stop
ClearButton == ~isPolling /\ Clear
UINext ==
  \/ StartButton
  \/ StopButton
  \/ ClearButton
  \/ ChatMessageSent
  \/ Tick
  \/ FetchComplete
  \/ Unmount
SpecUI == Init /\ [][UINext]_vars

\* The chat panel with the poller it signals: typing, submitting and chat
\* responses, beside the poller's button and its fetches.
\* Here the remote reports one status or fails.
ChatSpecResponses ==
  {r \in Responses :
     r.rejected \/ (r.ok /\ r.text.statusCode = 0 /\ r.text.status = "done"
                           /\ r.text.body = NoBody)}
ChatFetchComplete ==
  /\ mounted
  /\ \E f \in inflight : \E r \in ChatSpecResponses : PollResume(f, r)
  /\ UNCHANGED <<chatVars, mounted, wfVars, submitIgnored>>
ChatNext ==
  \/ TypeInput
  \/ Submit
  \/ ChatComplete
  \/ Start
  \/ Stop
  \/ Clear
  \/ ChatFetchComplete
SpecChat == Init /\ [][ChatNext]_vars

\* One undisturbed timer loop: polling is started once on the empty poller
\* and only ticks and responses follow; the fetched statuses are logged.
LoopStart ==
  /\ mounted
  /\ fetchCounter = 0
  /\ startPolling(RenderClosure)
  /\ UNCHANGED <<chatVars, mounted, wfVars, submitIgnored>>
LoopTick ==
  /\ mounted
  /\ fetchCounter < MaxLoopFetches
  /\ \E t \in timers : TimerFires(t)
  /\ UNCHANGED <<chatVars, mounted, wfVars, submitIgnored>>
LoopInit == InitState /\ logging = TRUE
LoopNext ==
  \/ LoopStart
  \/ LoopTick
  \/ FetchComplete
SpecLoop == LoopInit /\ [][LoopNext]_vars

\* Sessions one after another, through the rendered buttons and the chat
\* signal, with the statuses fetched since the last start() logged.
SessionStart ==
  /\ mounted
  /\ ~isPolling
  /\ fetchCounter < MaxLoopFetches
  /\ nextTimerId <= MaxStarts
  /\ startPolling(RenderClosure)
  /\ UNCHANGED <<chatVars, mounted, wfVars, submitIgnored>>
SessionSignal ==
  /\ mounted
  /\ pollIntervalRef # NULL
       \/ (fetchCounter < MaxLoopFetches /\ nextTimerId <= MaxStarts)
  /\ handleChatMessage
  /\ UNCHANGED <<chatVars, mounted, wfVars, submitIgnored>>
\* Here every fetch succeeds with a plain {status} object.
PlainResponses ==
  {r \in Responses :
     /\ ~r.rejected /\ r.ok /\ r.text.kind = "object"
     /\ r.text.statusCode = 0 /\ r.text.body = NoBody /\ r.text.status # ""}
SessionFetchComplete ==
  /\ mounted
  /\ \E f \in inflight : \E r \in PlainResponses : PollResume(f, r)
  /\ UNCHANGED <<chatVars, mounted, wfVars, submitIgnored>>
SessionNext ==
  \/ SessionStart
  \/ SessionSignal
  \/ StopButton
  \/ ClearButton
  \/ LoopTick
  \/ SessionFetchComplete
SpecSession == LoopInit /\ [][SessionNext]_vars

\* The chat workflow of App: one call of processChatMessage, the
\* orchestrator's answer and the workers' answers.
CallWorkflow ==
  /\ processChatMessage
  /\ UNCHANGED <<pollerVars, chatVars, mounted, submitIgnored>>
OrchestratorAnswers ==
  /\ \E reply \in OrchestratorReplies : OrchestratorSettles(reply)
  /\ UNCHANGED <<pollerVars, chatVars, mounted, submitIgnored>>
WorkerAnswers ==
  /\ \E i \in 1..Len(wfWorkers) : \E ok \in BOOLEAN : WorkerSettles(i, ok)
  /\ UNCHANGED <<pollerVars, chatVars, mounted, submitIgnored>>
WorkflowNext ==
  \/ CallWorkflow
  \/ OrchestratorAnswers
  \/ WorkerAnswers
SpecWorkflow == Init /\ [][WorkflowNext]_vars

\* The poller with its endpoint field: the buttons, the chat signal, the
\* timer and edits of the field at any time.
EndpointNext ==
  \/ EditEndpoint
  \/ StartButton
  \/ StopButton
  \/ ChatMessageSent
  \/ Tick
  \/ SessionFetchComplete
SpecEndpoint == Init /\ [][EndpointNext]_vars

\* The chat panel alone, with handleSubmit called at any time, also while
\* the form's controls are disabled: typing, submissions and responses.
SubmitAttempt ==
  /\ mounted
  /\ CanStart
  /\ submits < MaxSubmits \/ isProcessing \/ Trim(inputValue) = <<>>
  /\ handleSubmit
  /\ submitIgnored' = IF isProcessing THEN "busy"
                      ELSE IF Trim(inputValue) = <<>> THEN "blank" ELSE "no"
  /\ UNCHANGED <<mounted, wfVars>>
SubmitNext ==
  \/ TypeInput
  \/ SubmitAttempt
  \/ ChatComplete
SpecSubmit == Init /\ [][SubmitNext]_vars

\* ================================================================ claims
\* a response that fails: rejection, non-success HTTP status, malformed
\* JSON in the response or in the envelope body
FailedFetch(r) ==
  \/ r.rejected
  \/ ~r.ok
  \/ r.text.kind = "malformed"
  \/ (r.text.statusCode # 0 /\ r.text.body.kind = "malformed")

\* C1: every step other than clear() leaves the history as it was or
\* extends it at the end: no entry is removed, reordered or changed,
\* whatever the fetch outcomes and however often start() is called again.
C1_MonotonicAppend ==
  [][Clear \/ IsPrefix(statusHistory, statusHistory')]_vars
\* polling is active, a repeated start() was ignored, a fetch has failed
\* and the history holds two entries
C1_Witness ==
  /\ isPolling
  /\ startIgnored
  /\ Len(statusHistory) >= 2
  /\ connectionStatus = "Error"

\* C2: a cycle whose fetch fails appends nothing, leaves the displayed text
\* and the tracker as they were, sets the label to "Error", and no
\* exception leaves pollLambda.
C2_FailedCycle ==
  [][\A f \in inflight : \A r \in Responses :
       (FailedFetch(r) /\ PollResume(f, r)) =>
         /\ statusHistory' = statusHistory
         /\ historyIdCounter' = historyIdCounter
         /\ statusMessage' = statusMessage
         /\ previousStatusRef' = previousStatusRef
         /\ connectionStatus' = "Error"
         /\ ~uncaught']_vars
\* a cycle has failed after statuses were recorded
C2_Witness ==
  /\ connectionStatus = "Error"
  /\ statusHistory # <<>>
  /\ previousStatusRef # ""
  /\ isPolling

\* C3: there is never more than one timer, and start() called (by the
\* button's function or by the chat signal) while a timer exists schedules
\* no timer, issues no fetch and leaves the tracker alone.
C3_OneTimer ==
  /\ [](Cardinality(timers) <= 1)
  /\ [][(pollIntervalRef # NULL /\ (Start \/ ChatMessageSent)) =>
          UNCHANGED <<timers, pollIntervalRef, inflight, fetchCounter,
                      previousStatusRef, isPolling, connectionStatus,
                      statusHistory, statusMessage>>]_vars
\* start() was called while the timer existed, after a status was tracked
C3_Witness ==
  /\ startIgnored
  /\ Cardinality(timers) = 1
  /\ previousStatusRef # ""

\* C4: when the fetches of one timer loop started on the empty poller
\* deliver "initial status", "initial status", "done", the history is
\* exactly ["initial status", "done"] and "done" is displayed.
C4_SentinelExempt ==
  sessionRaws = <<SENTINEL, SENTINEL, "done">> =>
    /\ StatusesOf(statusHistory) = <<SENTINEL, "done">>
    /\ statusMessage = "done"

\* C5: when the fetches of one timer loop deliver the same non-sentinel
\* status three times in a row, one "processing..." entry is appended for
\* the whole run of repeats.
C5_OneProcessingEntry ==
  \A a \in Statuses \ {SENTINEL} :
    sessionRaws = <<a, a, a>> =>
      StatusesOf(statusHistory) = <<a, PROCESSING>>

\* C6: when the fetches of one timer loop started on the empty poller
\* deliver A, A, A, B (A not the sentinel, B another status), the history
\* is exactly [A, "processing...", "processing...", B].
C6_RepeatsThenChange ==
  \A a \in Statuses \ {SENTINEL} : \A b \in Statuses \ {a} :
    sessionRaws = <<a, a, a, b>> =>
      StatusesOf(statusHistory) = <<a, PROCESSING, PROCESSING, b>>
\* the loop has delivered running, running, running, done
C6_Witness == sessionRaws = <<"running", "running", "running", "done">>

\* C7 (for a stop() and clear() with no fetch in flight): history, text
\* and tracker are empty until the next start(), and the first fetch with
\* a status S after that start() appends S as a changed status.
C7_ResetThenFirst ==
  /\ [](resetPhase = "cleared" =>
          statusHistory = <<>> /\ statusMessage = "" /\ previousStatusRef = "")
  /\ [][\A f \in inflight : \A r \in Responses :
          (resetPhase = "restarted" /\ Delivered(r) # "" /\ PollResume(f, r)) =>
            /\ StatusesOf(statusHistory') = <<Delivered(r)>>
            /\ statusMessage' = Delivered(r)
            /\ previousStatusRef' = Delivered(r)]_vars

\* C8: the ids in the history go up by exactly 1 from each entry to the
\* next, so they are distinct and strictly increasing.
C8_IdsConsecutive ==
  \A i \in 2..Len(statusHistory) :
    statusHistory[i].id = statusHistory[i - 1].id + 1
\* two fetches completed after a clear() that found them in flight
C8_Witness ==
  /\ resetPhase = "clearedInflight"
  /\ Len(statusHistory) >= 2

\* C10: stop() (also the one at unmount) leaves no timer and marks the
\* poller inactive; from an inactive poller only a start() issues a fetch;
\* stop() on a stopped poller leaves handle, history, text and tracker.
C10_Stop ==
  [][/\ (Stop \/ Unmount) =>
          (~isPolling' /\ pollIntervalRef' = NULL /\ timers' = {})
     /\ (~isPolling /\ fetchCounter' # fetchCounter) => isPolling'
     /\ (~isPolling /\ (Stop \/ Unmount)) =>
          UNCHANGED <<pollIntervalRef, statusHistory, statusMessage,
                      previousStatusRef, isPolling, timers, inflight>>]_vars
\* stop() has run on a poller that was never started
C10_Witness ==
  /\ connectionStatus = "Stopped"
  /\ nextTimerId = 1
  /\ mounted

\* C9: the step that issues the chat POST has already run the poller's
\* handler: after it polling is active, and if polling was inactive its
\* first fetch is in flight, while an active poller is left as it was; the
\* arrival of the chat response or error starts nothing.
C9_SignalOnSubmit ==
  [][/\ (chatInflight' \ chatInflight # {}) =>
          /\ isPolling'
          /\ ~isPolling =>
               /\ pollIntervalRef' # NULL
               /\ fetchCounter' = fetchCounter + 1
               /\ \E f \in inflight' \ inflight : f.seq = fetchCounter'
          /\ isPolling =>
               UNCHANGED <<timers, pollIntervalRef, inflight, fetchCounter,
                           previousStatusRef, connectionStatus,
                           statusHistory, statusMessage>>
     /\ (chatInflight \ chatInflight' # {}) =>
          UNCHANGED <<isPolling, timers, pollIntervalRef, inflight,
                      fetchCounter>>]_vars
\* the POST of a submission is in flight and polling runs, started by the
\* signal: its first fetch carries the listener's closure, not the render's
C9_Witness ==
  /\ chatInflight # {}
  /\ isProcessing
  /\ isPolling
  /\ resetPhase = "restarted"
  /\ statusMessage = ""
  /\ \E f \in inflight : f.seq = fetchCounter /\ f.statusMessage # ""

\* a successful response whose status the cycle of fetch f records as a
\* changed status: not the tracked one (unless the sentinel) and not the
\* text the cycle compares with
ChangedFor(f, r) ==
  /\ ~FailedFetch(r)
  /\ Delivered(r) # ""
  /\ (Delivered(r) # previousStatusRef \/ Delivered(r) = SENTINEL)
  /\ Delivered(r) # f.statusMessage

\* C11: stop() (also at unmount) and clear() abort no fetch in flight, and
\* a changed status that arrives while the poller is inactive is applied
\* all the same: the history gains the entry, the text becomes the status
\* and the label becomes a polling label, with the poller still inactive.
C11_AppliedAfterStop ==
  [][/\ (Stop \/ Clear \/ Unmount) => inflight' = inflight
     /\ \A f \in inflight : \A r \in Responses :
          (~isPolling /\ ChangedFor(f, r) /\ PollResume(f, r)) =>
            /\ Len(statusHistory') = Len(statusHistory) + 1
            /\ Last(statusHistory').status = Delivered(r)
            /\ statusMessage' = Delivered(r)
            /\ connectionStatus' = "Polling - Status updated"
            /\ ~isPolling' /\ timers' = {}]_vars
\* the poller was stopped and cleared with a fetch in flight, and the
\* response has since put an entry in the history and a polling label
\* where "Stopped" stood
C11_Witness ==
  /\ ~isPolling
  /\ timers = {}
  /\ resetPhase = "clearedInflight"
  /\ statusHistory # <<>>
  /\ statusMessage = Last(statusHistory).status
  /\ connectionStatus = "Polling - Status updated"

\* C12: fetches overlap and their responses are applied in any order. The
\* response of a fetch issued before one already applied is applied all
\* the same, against the tracker as it stands: a changed status becomes
\* the text, the tracker and the last history entry, and a repeat of the
\* tracked status appends "processing...".
C12_LastAppliedWins ==
  [][\A f \in inflight : \A r \in Responses :
       (Superseded(f) /\ PollResume(f, r)) =>
         /\ ChangedFor(f, r) =>
              /\ statusMessage' = Delivered(r)
              /\ previousStatusRef' = Delivered(r)
              /\ Last(statusHistory').status = Delivered(r)
              /\ Len(statusHistory') = Len(statusHistory) + 1
         /\ (/\ Delivered(r) # ""
             /\ Delivered(r) = previousStatusRef
             /\ Delivered(r) # SENTINEL
             /\ f.statusMessage # PROCESSING) =>
              /\ statusMessage' = PROCESSING
              /\ previousStatusRef' = previousStatusRef
              /\ Last(statusHistory').status = PROCESSING]_vars
\* two fetches overlapped and the earlier one's response was applied last:
\* "done" was recorded first, then the older fetch's "running", which is
\* now the text, the tracker and the last entry
C12_Witness ==
  /\ appliedSeq # 0
  /\ \E n \in (appliedSeq + 1)..fetchCounter : \A g \in inflight : g.seq # n
  /\ StatusesOf(statusHistory) = <<"done", "running">>
  /\ statusMessage = "running"
  /\ previousStatusRef = "running"

\* C13: while a session runs, when its fetches have delivered A, B, A (A
\* and B distinct), the history ends with A, B, A and the tracker is A:
\* the second A was recorded as a change from B.
C13_Oscillation ==
  \A a \in Statuses : \A b \in Statuses \ {a} :
    (isPolling /\ sessionRaws = <<a, b, a>>) =>
      /\ Len(statusHistory) >= 3
      /\ SubSeq(StatusesOf(statusHistory), Len(statusHistory) - 2,
                Len(statusHistory)) = <<a, b, a>>
      /\ previousStatusRef = a

\* C14: a cycle whose fetch succeeds and whose payload has no status, or
\* an empty one, changes nothing: history, id counter, text, tracker,
\* label, active flag and timer stay as they were.
C14_NoStatusNoOp ==
  [][\A f \in inflight : \A r \in Responses :
       (~FailedFetch(r) /\ Delivered(r) = "" /\ PollResume(f, r)) =>
         /\ UNCHANGED <<statusHistory, historyIdCounter, statusMessage,
                        previousStatusRef, connectionStatus, isPolling,
                        timers, pollIntervalRef>>
         /\ ~uncaught']_vars
\* polling was started once and still runs, one of its fetches has come
\* back, and the label still says "Polling started": that response
\* carried no status
C14_Witness ==
  /\ isPolling
  /\ nextTimerId = 2
  /\ connectionStatus = "Polling started"
  /\ Cardinality(inflight) < fetchCounter
  /\ ~uncaught

C16_DistinctNeighbours ==
  \A i \in 2..Len(statusHistory) :
    statusHistory[i].status # statusHistory[i - 1].status

\* a chat response that parses to an object with nothing to extract: no
\* response, no message and no body, at the top or in an object body
NoExtractableMessage(d) ==
  /\ d.json = "object"
  /\ \/ /\ d.statusCode = 0 \/ d.body.kind = "absent"
        /\ d.response = "" /\ d.message = "" /\ d.body.kind = "absent"
     \/ /\ d.statusCode # 0 /\ d.body.kind = "object"
        /\ d.body.response = "" /\ d.body.message = "" /\ d.body.body = ""
\* the failures of a chat request
ChatFailed(r) ==
  \/ r.rejected
  \/ ~r.ok
  \/ r.data.json = "malformed"
  \/ NoExtractableMessage(r.data)

\* C17: the arrival of a chat response or error appends exactly one bot
\* message after the user's, clears the processing flag, and when the
\* request failed (transport, non-2xx, unparsable, nothing to extract) the
\* message is an error message and the label is "Error"; the processing
\* flag is set exactly while a request is in flight.
C17_ChatFailures ==
  /\ [](isProcessing <=> chatInflight # {})
  /\ [][\A p \in chatInflight : \A r \in ChatResponses :
          SendResume(p, r) =>
            /\ Len(messages') = Len(messages) + 1
            /\ SubSeq(messages', 1, Len(messages)) = messages
            /\ Last(messages).sender = "user"
            /\ Last(messages').sender = "bot"
            /\ ~isProcessing'
            /\ ChatFailed(r) =>
                 /\ Last(messages').error
                 /\ chatConnectionStatus' = "Error"]_vars

\* C18: the tracker changes only in a cycle that records a changed status
\* (to that status), in a start() that starts polling (to empty) and in
\* clear() (to empty); every other cycle, a start() that is ignored, and
\* stop(), also at unmount, leave it as it was.
C18_TrackerWrites ==
  [][/\ \A f \in inflight : \A r \in Responses :
          PollResume(f, r) =>
            previousStatusRef' =
              IF ChangedFor(f, r) THEN Delivered(r) ELSE previousStatusRef
     /\ ((Start \/ ChatMessageSent) /\ fetchCounter' # fetchCounter) =>
          previousStatusRef' = ""
     /\ ((Start \/ ChatMessageSent) /\ fetchCounter' = fetchCounter) =>
          previousStatusRef' = previousStatusRef
     /\ Clear => previousStatusRef' = ""
     /\ (Stop \/ Unmount) => previousStatusRef' = previousStatusRef
     /\ (\E t \in timers : TimerFires(t)) =>
          previousStatusRef' = previousStatusRef]_vars
\* the poller was stopped after a still-processing cycle and the tracker
\* still holds the status last recorded as changed
C18_Witness ==
  /\ ~isPolling
  /\ connectionStatus = "Stopped"
  /\ statusMessage = PROCESSING
  /\ previousStatusRef # ""
  /\ previousStatusRef # PROCESSING

\* the workflow has reported message
Emitted(message) ==
  \E i \in 1..Len(wfUpdates) : wfUpdates[i].message = message
\* the orchestrator has answered the call
Answered == wfPc \notin {"idle", "orchestrator"}

\* C19: "Workflow completed" is the last report of a call whose
\* orchestrator answered and whose invoked workers all succeeded; when the
\* orchestrator or a worker failed, "Workflow failed" is reported, the call
\* throws and "Workflow completed" is not reported; when the orchestrator
\* answers without tasks no worker is invoked, "No tasks assigned" is
\* reported and the call returns the orchestrator's response.
C19_Workflow ==
  /\ Emitted("Workflow completed") =>
       /\ Answered /\ wfReply.ok
       /\ \A i \in 1..Len(wfWorkers) : wfWorkers[i].state = "ok"
       /\ Last(wfUpdates) = Update("Workflow completed")
       /\ ~Emitted("Workflow failed")
       /\ wfPc = "returned" /\ wfResult = "aggregate"
  /\ (Answered /\ (~wfReply.ok
                    \/ \E i \in 1..Len(wfWorkers) : wfWorkers[i].state = "failed")) =>
       /\ Emitted("Workflow failed")
       /\ ~Emitted("Workflow completed")
       /\ wfPc = "thrown" /\ wfResult = "error"
  /\ (Answered /\ wfReply.ok
       /\ (~wfReply.tasks.present \/ wfReply.tasks.count = 0)) =>
       /\ wfWorkers = <<>>
       /\ ~Emitted("Worker Agent started")
       /\ Last(wfUpdates) = Update("No tasks assigned")
       /\ wfPc = "returned" /\ wfResult = "orchestratorResponse"
\* two workers were invoked, both succeeded, and the workflow completed
C19_Witness ==
  /\ Emitted("Workflow completed")
  /\ Len(wfWorkers) = 2
  /\ wfWorkers[1].agent # wfWorkers[2].agent
  /\ Emitted("Worker Agent completed")

\* C20: every fetch is issued to the base URL that the endpoint field
\* holds at that moment, followed by /status.
C20_EditedEndpointUsed ==
  [][\A f \in inflight' \ inflight :
       f.url = <<apiEndpoint', STATUS_PATH>>]_vars

\* C21: the poller is marked active exactly when its timer is scheduled:
\* isPolling, the handle and the one live timer agree, the registered
\* chat handler sees the same flag, and a chat signal that finds no timer
\* starts polling (within the bounds of a behaviour).
C21_FlagMatchesTimer ==
  /\ [](mounted =>
          /\ isPolling <=> (pollIntervalRef # NULL)
          /\ isPolling <=> (timers # {})
          /\ \A t \in timers : t.id = pollIntervalRef
          /\ listener.isPolling = isPolling)
  /\ [][(ChatMessageSent /\ pollIntervalRef = NULL) =>
          /\ isPolling'
          /\ pollIntervalRef' # NULL
          /\ fetchCounter' = fetchCounter + 1]_vars
\* polling was stopped and started again by the chat signal after a
\* clear(): the second timer runs and its first fetch, with the handler's
\* closure, is in flight
C21_Witness ==
  /\ isPolling
  /\ pollIntervalRef = 2
  /\ Cardinality(timers) = 1
  /\ resetPhase = "restarted"
  /\ statusMessage = ""
  /\ \E f \in inflight : f.seq = fetchCounter /\ f.statusMessage # ""

\* C22: the history is empty exactly when the displayed text is empty, and
\* a non-empty history ends with the displayed text.
C22_TextMirrorsHistory ==
  /\ (statusHistory = <<>>) <=> (statusMessage = "")
  /\ statusHistory # <<>> => statusMessage = Last(statusHistory).status
\* clear() ran with two fetches in flight on the stopped poller; their
\* responses then recorded "running" and a repeat of it
C22_Witness ==
  /\ resetPhase = "clearedInflight"
  /\ ~isPolling
  /\ StatusesOf(statusHistory) = <<"running", PROCESSING>>
  /\ statusMessage = PROCESSING

\* C23: never more than one chat POST is in flight, and a call of
\* handleSubmit while a request is being processed, or with an empty or
\* whitespace-only input, appends no message, leaves the poller alone
\* (no signal) and issues no request.
C23_OnePostInFlight ==
  /\ [](Cardinality(chatInflight) <= 1)
  /\ [][(SubmitAttempt /\ (isProcessing \/ Trim(inputValue) = <<>>)) =>
          UNCHANGED <<messages, messageIdCounter, chatInflight, submits,
                      isProcessing, chatConnectionStatus, inputValue,
                      pollerVars>>]_vars
\* handleSubmit was called while the POST of the first submission was in
\* flight and returned at its guard: one user message, one request
C23_Witness ==
  /\ submitIgnored = "busy"
  /\ isProcessing
  /\ Cardinality(chatInflight) = 1
  /\ Len(messages) = 1
  /\ isPolling

====
